---- MODULE Spec2Model ----
(***************************************************************************)
(* MCP24LC512: driver of a 24LC512 serial EEPROM on a two-wire bus.        *)
(*                                                                         *)
(* The driver (src/MCP24LC512.cpp) is modelled call by call.  What it      *)
(* drives is modelled beside it: the Arduino TwoWire bus objects, the      *)
(* digital pins, and one 24LC512 device strapped to the default bus        *)
(* address on the default bus with its WP input wired to one MCU pin.      *)
(* The device's behaviour is the one the header documents: a write is      *)
(* acknowledged but not stored while WP is high, and the device does not   *)
(* answer during the 5 ms that follow a stored write.                      *)
(*                                                                         *)
(* Every driver call is synchronous and blocking, so each call is one      *)
(* action.  Time passes in steps of one millisecond between calls (Tick).  *)
(***************************************************************************)
EXTENDS Integers, Sequences, FiniteSets, TLC

(***************************************************************************)
(* Program constants.                                                      *)
(***************************************************************************)
\* static constexpr uint8_t Default = 0x50
Default == 80
\* static constexpr uint8_t None = 0xFF
None == 255
\* "@bug Add a delay of 5 milliseconds after a write operation"
WriteCycleMs == 5
\* Arduino levels and pin mode, as used by digitalWrite and pinMode.
HIGH == 1
LOW == 0
OUTPUT == 3

(***************************************************************************)
(* Bounds and input sets.                                                  *)
(***************************************************************************)
\* Longest run of consecutive identical begin calls that is explored.
MaxBegins == 3

\* The two TwoWire objects of the core; Unbound is the pointer before begin.
Wires == {"Wire", "Wire1"}
Unbound == "unbound"
GPIO == "GPIO"
\* Bus addresses given to begin: the default one and a neighbour.
BusAddrs == {Default, Default + 1}
\* MCU pins that exist on the board (one is enough: the one wired to WP).
RealPins == {7}
\* Pins given to begin.
WpPins == RealPins \cup {None}
\* 16-bit memory addresses used: 0x1234 and its byte swap 0x3412.
MemAddrs == {4660, 13330}
\* Bytes written: 0xAB and 0xFF (the erased value).
Data == {171, 255}

(***************************************************************************)
(* The board: where the one device sits.                                   *)
(***************************************************************************)
DeviceWire == "Wire"
DeviceAddress == Default
WiredPin == CHOOSE p \in RealPins : TRUE

VARIABLES
    _wire,      \* TwoWire* _wire
    _address,   \* uint8_t _address
    _wp,        \* uint8_t _wp
    begun,      \* per bus object: initialised (begin) and not torn down (end)
    pinOut,     \* per pin: configured as an output
    pinLevel,   \* per pin: the level last written
    mem,        \* the device's stored bytes
    busy,       \* milliseconds left of the device's internal write cycle
    last,       \* observation: the last driver call, its arguments and results
    wpCalls,    \* observation: the last two writeProtect arguments since begin
    ended,      \* observation: end() was called and begin() not since
    streak      \* observation: the current run of identical begin calls

vars == <<_wire, _address, _wp, begun, pinOut, pinLevel, mem, busy, last,
          wpCalls, ended, streak>>

(***************************************************************************)
(* Integer conversions of the C++ code.                                    *)
(***************************************************************************)
\* Conversion of an int to uint8_t (modulo 2^8).
ToUint8(x) == x % 256

\* uint16_t address >> 8
ShiftRight8(x) == x \div 256

(***************************************************************************)
(* Observations.                                                           *)
(***************************************************************************)
Call(tgt, f, a, b) == [tgt |-> tgt, f |-> f, a |-> a, b |-> b]

\* What a read keeps of the write it directly follows.
NoWrite ==
    [valid |-> FALSE, address |-> 0, data |-> 0, ok |-> FALSE,
     inCycle |-> FALSE, old |-> 0]

WriteSeen(r) ==
    [valid |-> TRUE, address |-> r.address, data |-> r.data, ok |-> r.ok,
     inCycle |-> r.inCycle, old |-> r.old]

NoOp ==
    [op |-> "none", bus |-> "", dev |-> 0, wp |-> 0, address |-> 0, data |-> 0,
     on |-> FALSE, ok |-> FALSE, val |-> 0, status |-> 0, nodata |-> FALSE,
     calls |-> <<>>, inCycle |-> FALSE, busy1 |-> 0, old |-> 0, w |-> NoWrite]

NoStreak == [n |-> 0, cfg |-> <<>>, ok |-> FALSE]

\* The last two elements of a sequence.
Last2(s) == IF Len(s) <= 2 THEN s ELSE SubSeq(s, Len(s) - 1, Len(s))

(***************************************************************************)
(* The digital pins (Arduino core).                                        *)
(***************************************************************************)
\* pinMode(pin, OUTPUT): no effect on a pin that does not exist.
PinMode(pin) ==
    IF pin \in RealPins THEN [pinOut EXCEPT ![pin] = TRUE] ELSE pinOut

\* digitalWrite(pin, level): no effect on a pin that does not exist.
DigitalWrite(pin, level) ==
    IF pin \in RealPins THEN [pinLevel EXCEPT ![pin] = level] ELSE pinLevel

(***************************************************************************)
(* The device.                                                             *)
(***************************************************************************)
\* The WP input: high only while the wired pin drives it high.
WpAsserted == pinOut[WiredPin] /\ pinLevel[WiredPin] = HIGH

\* The device acknowledges its address on its bus unless it is in a write cycle.
Acks(w, dev) == w = DeviceWire /\ dev = DeviceAddress /\ begun[w] /\ busy = 0

\* The memory address carried by the first two bytes, high byte first.
DecodeAddress(bytes) == bytes[1] * 256 + bytes[2]

MemAt(a) == IF a \in MemAddrs THEN mem[a] ELSE 255

\* A byte write stores the third byte unless WP is high.
DeviceStores(w, dev, bytes) ==
    Acks(w, dev) /\ Len(bytes) = 3 /\ ~WpAsserted

DeviceMem(w, dev, bytes) ==
    IF DeviceStores(w, dev, bytes) /\ DecodeAddress(bytes) \in MemAddrs
    THEN [mem EXCEPT ![DecodeAddress(bytes)] = bytes[3]]
    ELSE mem

\* A stored write starts the internal write cycle.
DeviceBusy(w, dev, bytes) ==
    IF DeviceStores(w, dev, bytes) THEN WriteCycleMs ELSE busy

(***************************************************************************)
(* The bus (Arduino TwoWire).                                              *)
(***************************************************************************)
\* endTransmission(): 0 success, 2 address not acknowledged, 4 other error
\* (the bus object is not initialised).
EndTransmission(w, dev) ==
    IF ~begun[w] THEN 4 ELSE IF Acks(w, dev) THEN 0 ELSE 2

\* requestFrom(dev, 1): the bytes received, none if nothing acknowledges.
RequestFrom(w, dev, a) == IF Acks(w, dev) THEN <<MemAt(a)>> ELSE <<>>

\* read(): the next received byte, or -1 when there is none.
WireRead(rx) == IF rx = <<>> THEN -1 ELSE Head(rx)

(***************************************************************************)
(* The driver.                                                             *)
(***************************************************************************)
\* The core's default bus object, Wire.
CoreWire == "Wire"

OtherBus == "Wire1"

\* begin(address, wp) is begin(Wire, address, wp).
DefaultBus == CoreWire

Cfg == <<_wire, _address, _wp, begun, pinOut, pinLevel>>

BeginImpl(tag, w, a, p) ==
    LET again == streak.n >= 1 /\ last.bus = w /\ last.dev = a /\ last.wp = p
    IN  /\ again => streak.n < MaxBegins
        /\ _wire' = w
        /\ _address' = a
        /\ _wp' = p
        /\ pinOut' = PinMode(p)
        /\ begun' = [begun EXCEPT ![w] = TRUE]
        /\ ended' = FALSE
        /\ wpCalls' = <<>>
        /\ last' = [NoOp EXCEPT !.op = tag, !.bus = w, !.dev = a, !.wp = p,
                       !.ok = TRUE,
                       !.calls = <<Call(GPIO, "pinMode", p, OUTPUT),
                                   Call(w, "begin", 0, 0)>>]
        /\ UNCHANGED <<pinLevel, mem, busy>>
        /\ streak' = IF again
                     THEN [streak EXCEPT !.n = streak.n + 1]
                     ELSE [n |-> 1, cfg |-> Cfg', ok |-> TRUE]

Begin(w, a, p) == BeginImpl("begin", w, a, p)

BeginDefault(a, p) == BeginImpl("beginDefault", DefaultBus, a, p)

End ==
    /\ _wire # Unbound
    /\ begun' = [begun EXCEPT ![_wire] = FALSE]
    /\ ended' = TRUE
    /\ streak' = NoStreak
    /\ last' = [NoOp EXCEPT !.op = "end", !.ok = TRUE,
                   !.calls = <<Call(_wire, "end", 0, 0)>>]
    /\ UNCHANGED <<_wire, _address, _wp, pinOut, pinLevel, mem, busy, wpCalls>>

WriteBytesLowFirst(address, data) ==
    <<ToUint8(address), ToUint8(ShiftRight8(address)), ToUint8(data)>>

WriteBytesNoShift(address, data) ==
    <<ToUint8(address), ToUint8(address), ToUint8(data)>>

\* The bytes write() queues: address >> 8, address, data.
WriteBytes(address, data) ==
    <<ToUint8(ShiftRight8(address)), ToUint8(address), ToUint8(data)>>

WriteResultRaw(status) == status # 0

\* return _wire->endTransmission() == 0
WriteResult(status) == status = 0

WriteDelayFull == WriteCycleMs

\* write() calls no delay() before it returns.
WriteDelayMs == 0

AfterDelay(b, ms) == IF b > ms THEN b - ms ELSE 0

BusCalls(w, dev, bytes) ==
    <<Call(w, "beginTransmission", dev, 0)>>
    \o [i \in 1..Len(bytes) |-> Call(w, "write", bytes[i], 0)]
    \o <<Call(w, "endTransmission", 0, 0)>>

Write(address, data) ==
    /\ _wire # Unbound
    /\ LET bytes == WriteBytes(address, data)
           status == EndTransmission(_wire, _address)
           ok == WriteResult(status)
           b1 == AfterDelay(DeviceBusy(_wire, _address, bytes), WriteDelayMs)
       IN  /\ mem' = DeviceMem(_wire, _address, bytes)
           /\ busy' = b1
           /\ last' = [NoOp EXCEPT !.op = "write", !.address = address,
                          !.data = data, !.ok = ok, !.status = status,
                          !.calls = BusCalls(_wire, _address, bytes),
                          !.inCycle = (busy > 0), !.busy1 = b1,
                          !.old = MemAt(address)]
    /\ streak' = NoStreak
    /\ UNCHANGED <<_wire, _address, _wp, begun, pinOut, pinLevel, wpCalls, ended>>

\* The bytes read() queues: address >> 8, address.
ReadBytes(address) == <<ToUint8(ShiftRight8(address)), ToUint8(address)>>

ReadRequestsIfOk(status) == status = 0

\* read() calls requestFrom whatever endTransmission returned.
ReadRequests(status) == TRUE

ReadResultZero(v) == IF v < 0 THEN 0 ELSE v

\* return _wire->read(), an int, as uint8_t
ReadResult(v) == ToUint8(v)

Read(address) ==
    /\ _wire # Unbound
    /\ LET bytes == ReadBytes(address)
           status == EndTransmission(_wire, _address)
           req == ReadRequests(status)
           rx == IF req
                 THEN RequestFrom(_wire, _address, DecodeAddress(bytes))
                 ELSE <<>>
       IN  last' = [NoOp EXCEPT !.op = "read", !.address = address,
                       !.val = ReadResult(WireRead(rx)), !.status = status,
                       !.nodata = (rx = <<>>),
                       !.calls = BusCalls(_wire, _address, bytes)
                                 \o (IF req
                                     THEN <<Call(_wire, "requestFrom", _address, 1)>>
                                     ELSE <<>>)
                                 \o <<Call(_wire, "read", 0, 0)>>,
                       !.inCycle = (busy > 0),
                       !.w = IF last.op = "write" THEN WriteSeen(last)
                             ELSE NoWrite]
    /\ streak' = NoStreak
    /\ UNCHANGED <<_wire, _address, _wp, begun, pinOut, pinLevel, mem, busy,
                   wpCalls, ended>>

WpLevelInverted(on) == IF on THEN LOW ELSE HIGH

WpLevelHigh(on) == HIGH

\* on ? HIGH : LOW
WpLevel(on) == IF on THEN HIGH ELSE LOW

WriteProtect(on) ==
    /\ _wire # Unbound
    /\ pinLevel' = DigitalWrite(_wp, WpLevel(on))
    /\ wpCalls' = Last2(Append(wpCalls, on))
    /\ streak' = NoStreak
    /\ last' = [NoOp EXCEPT !.op = "writeProtect", !.on = on,
                   !.calls = <<Call(GPIO, "digitalWrite", _wp, WpLevel(on))>>]
    /\ UNCHANGED <<_wire, _address, _wp, begun, pinOut, mem, busy, ended>>

\* One millisecond passes; it matters only while the device is in a write cycle.
Tick ==
    /\ busy > 0
    /\ busy' = busy - 1
    /\ UNCHANGED <<_wire, _address, _wp, begun, pinOut, pinLevel, mem, last,
                   wpCalls, ended, streak>>

(***************************************************************************)
(* The state after construction: the constructor sets nothing, so _address *)
(* and _wp hold any value and _wire is not bound.  Calls that go through   *)
(* _wire are considered only once begin has bound it.                      *)
(***************************************************************************)
Init ==
    /\ _wire = Unbound
    /\ _address \in BusAddrs
    /\ _wp \in WpPins
    /\ begun = [w \in Wires |-> FALSE]
    /\ pinOut = [p \in RealPins |-> FALSE]
    /\ pinLevel = [p \in RealPins |-> LOW]
    /\ mem = [a \in MemAddrs |-> 255]
    /\ busy = 0
    /\ last = NoOp
    /\ wpCalls = <<>>
    /\ ended = FALSE
    /\ streak = NoStreak

Next ==
    \/ \E w \in Wires, a \in BusAddrs, p \in WpPins : Begin(w, a, p)
    \/ \E a \in BusAddrs, p \in WpPins : BeginDefault(a, p)
    \/ End
    \/ \E address \in MemAddrs, data \in Data : Write(address, data)
    \/ \E address \in MemAddrs : Read(address)
    \/ \E on \in BOOLEAN : WriteProtect(on)
    \/ Tick

Spec == Init /\ [][Next]_vars

(***************************************************************************)
(* Properties.                                                             *)
(***************************************************************************)
\* The driver is bound, by a begin not followed by end, to the bus and the
\* bus address where the device sits.
Attached == _wire = DeviceWire /\ _address = DeviceAddress /\ begun[_wire]

\* The configured write-protect pin is the one wired to the device's WP input.
PinWired == _wp = WiredPin

\* The last call is a read that directly follows a write to the same address.
ReadAfterWrite ==
    last.op = "read" /\ last.w.valid /\ last.w.address = last.address

CountCalls(calls, f) == Cardinality({i \in 1..Len(calls) : calls[i].f = f})

\* C1: when write(A, D) returned true with write protection not asserted, a
\* read(A) that directly follows it once the write cycle is over returns D.
C1_WriteThenRead ==
    (ReadAfterWrite /\ last.w.ok /\ ~WpAsserted /\ ~last.inCycle)
        => last.val = last.w.data

C1_Witness ==
    /\ ReadAfterWrite /\ last.w.ok /\ ~WpAsserted /\ ~last.inCycle
    /\ last.address = 4660 /\ last.w.data = 171 /\ last.w.old = 255
    /\ last.val = 171

\* C2: when writeProtect(true) was the last writeProtect call before
\* write(A, D) to the ready device, the write returns true, nothing is stored,
\* and a read(A) that directly follows returns the byte stored before, not D.
C2_ProtectedWrite ==
    /\ (/\ last.op = "write" /\ Attached /\ ~last.inCycle /\ PinWired
        /\ wpCalls # <<>> /\ wpCalls[Len(wpCalls)])
           => last.ok /\ MemAt(last.address) = last.old
    /\ (/\ ReadAfterWrite /\ Attached /\ ~last.w.inCycle /\ PinWired
        /\ wpCalls # <<>> /\ wpCalls[Len(wpCalls)])
           => last.w.ok /\ last.val = last.w.old

C2_Witness ==
    /\ ReadAfterWrite /\ Attached /\ ~last.w.inCycle /\ PinWired
    /\ wpCalls # <<>> /\ wpCalls[Len(wpCalls)]
    /\ last.w.ok /\ last.w.data = 171 /\ last.w.old = 255 /\ last.val = 255

\* C3: after writeProtect(true) then writeProtect(false), a write(A, D) to the
\* ready device stores D at A; and the configured pin's level is that of the
\* most recent writeProtect call, high for true and low for false.
C3_ProtectOffRestores ==
    /\ (/\ last.op = "write" /\ Attached /\ ~last.inCycle /\ PinWired
        /\ wpCalls = <<TRUE, FALSE>>)
           => last.ok /\ MemAt(last.address) = last.data
    /\ (wpCalls # <<>> /\ _wp \in RealPins)
           => pinLevel[_wp] = (IF wpCalls[Len(wpCalls)] THEN HIGH ELSE LOW)

C3_Witness ==
    /\ last.op = "write" /\ Attached /\ ~last.inCycle /\ PinWired
    /\ wpCalls = <<TRUE, FALSE>>
    /\ last.data = 171 /\ last.old = 255 /\ MemAt(last.address) = 171
    /\ pinLevel[_wp] = LOW

\* C4: write(A, D) issues one transaction to the stored bus address carrying
\* exactly the bytes A div 256, A mod 256, D, in that order.
C4_WriteFrame ==
    last.op = "write" =>
        last.calls = <<Call(_wire, "beginTransmission", _address, 0),
                       Call(_wire, "write", last.address \div 256, 0),
                       Call(_wire, "write", last.address % 256, 0),
                       Call(_wire, "write", last.data, 0),
                       Call(_wire, "endTransmission", 0, 0)>>

C4_Witness ==
    /\ last.op = "write" /\ last.address = 4660 /\ last.data = 171
    /\ _address = Default + 1
    /\ Len(last.calls) = 5
    /\ <<last.calls[2].a, last.calls[3].a, last.calls[4].a>> = <<18, 52, 171>>

\* C5: write returns true exactly when the transaction closed with status 0,
\* and it issues exactly one transaction whatever the status.
C5_WriteStatus ==
    last.op = "write" =>
        /\ last.ok <=> (last.status = 0)
        /\ CountCalls(last.calls, "beginTransmission") = 1
        /\ CountCalls(last.calls, "endTransmission") = 1

C5_Witness ==
    /\ last.op = "write" /\ last.status = 2 /\ ~last.ok
    /\ CountCalls(last.calls, "endTransmission") = 1

\* C6: write returns with the whole write cycle of a stored byte still ahead,
\* and a write or read issued during the cycle is not acknowledged: the write
\* returns false and stores nothing, the read gets no byte.
C6_NoSettlingDelay ==
    /\ (last.op = "write" /\ last.ok /\ ~WpAsserted)
           => last.busy1 = WriteCycleMs
    /\ (last.op = "write" /\ last.inCycle)
           => ~last.ok /\ last.status # 0 /\ MemAt(last.address) = last.old
    /\ (last.op = "read" /\ last.inCycle)
           => last.status # 0 /\ last.nodata

C6_Witness ==
    /\ last.op = "write" /\ last.inCycle /\ Attached /\ ~WpAsserted
    /\ ~last.ok /\ last.data = 171 /\ last.old = 255
    /\ MemAt(last.address) = 255

\* C7: after end(), a write, read or writeProtect made before a new begin()
\* issues no bus call and no pin write and does not return true.
C7_FailFastAfterEnd ==
    (ended /\ last.op \in {"write", "read", "writeProtect"})
        => last.calls = <<>> /\ ~last.ok

\* C8 as claimed: a read that gets no byte from the bus returns 0x00.
C8_NoByteReadsZero ==
    (last.op = "read" /\ last.nodata) => last.val = 0

\* C8: a read that gets no byte from the bus returns 0xFF, the value it also
\* returns for a stored 0xFF; a read that gets a byte returns the stored byte.
C8_NoByteReadsFF ==
    /\ (last.op = "read" /\ last.nodata) => last.val = 255
    /\ (last.op = "read" /\ ~last.nodata) => last.val = MemAt(last.address)

C8_Witness ==
    /\ last.op = "read" /\ last.nodata /\ last.val = 255
    /\ Attached /\ MemAt(last.address) = 171

\* C9: after any number of consecutive begin calls with the same arguments
\* the driver fields, the pin configuration and levels, and the bus state are
\* those after the first, with the same result; and begin(address, wp) binds
\* the core's default bus exactly as begin(Wire, address, wp) does.
C9_BeginIdempotent ==
    /\ streak.n >= 1 => Cfg = streak.cfg /\ last.ok = streak.ok
    /\ last.op = "beginDefault" =>
           /\ _wire = CoreWire /\ _address = last.dev /\ _wp = last.wp
           /\ begun[CoreWire] /\ last.ok
           /\ last.wp \in RealPins => pinOut[last.wp]
           /\ last.calls = <<Call(GPIO, "pinMode", last.wp, OUTPUT),
                             Call(CoreWire, "begin", 0, 0)>>

C9_Witness ==
    /\ streak.n = MaxBegins /\ last.op = "beginDefault"
    /\ _wp = WiredPin /\ pinLevel[WiredPin] = HIGH /\ begun[OtherBus]

\* C10: read(A) opens a transaction to the stored bus address, queues
\* A div 256 then A mod 256 and no data byte, closes the transaction, requests
\* one byte from the same address whatever the close status, and reads it.
C10_ReadSequence ==
    last.op = "read" =>
        last.calls = <<Call(_wire, "beginTransmission", _address, 0),
                       Call(_wire, "write", last.address \div 256, 0),
                       Call(_wire, "write", last.address % 256, 0),
                       Call(_wire, "endTransmission", 0, 0),
                       Call(_wire, "requestFrom", _address, 1),
                       Call(_wire, "read", 0, 0)>>

C10_Witness ==
    /\ last.op = "read" /\ last.status # 0 /\ last.address = 4660
    /\ Len(last.calls) = 6 /\ last.calls[5].f = "requestFrom"

====
